---------------------------- MODULE Spec2Model ----------------------------
(***************************************************************************)
(* A model of app/utils/code_parser.py: the text normalizer                *)
(* (unescape_html), the code reference extractor                           *)
(* (extract_cpt_codes_from_paragraph, _parse_code_list) and the mapping    *)
(* builders (build_cpt_icd10_mapping, build_icd10_to_cpt_mapping).         *)
(*                                                                         *)
(* Python strings are TLA+ strings, read as sequences of characters: a     *)
(* character is a string of length 1, At(s, i) is s[i-1] of the source.    *)
(* A Python list is a sequence; a dict is a sequence of entries in         *)
(* insertion order, with unique keys.                                      *)
(***************************************************************************)
EXTENDS Integers, Sequences, FiniteSets, TLC

(***************************************************************************)
(* Characters and strings                                                  *)
(***************************************************************************)
At(s, i) == SubSeq(s, i, i)

DigitChars == "0123456789"
UpperChars == "ABCDEFGHIJKLMNOPQRSTUVWXYZ"
LowerChars == "abcdefghijklmnopqrstuvwxyz"

DigitSet == {At(DigitChars, i) : i \in 1..10}
UpperSet == {At(UpperChars, i) : i \in 1..26}
LowerSet == {At(LowerChars, i) : i \in 1..26}

IsDigit(c) == c \in DigitSet
IsUpper(c) == c \in UpperSet
IsLower(c) == c \in LowerSet

\* the least element of a non-empty set of positions, and the first position
\* of lo..hi that satisfies P (none: the default)
Min(S) == CHOOSE x \in S : \A y \in S : x <= y

Max(S) == CHOOSE x \in S : \A y \in S : x >= y

\* F(x), with x evaluated once whatever the number of its uses in F
Bind(x, F(_)) == CHOOSE r \in {F(v) : v \in {x}} : TRUE

First(lo, hi, P(_), default) ==
    Bind({i \in lo..hi : P(i)},
         LAMBDA hits : IF hits = {} THEN default ELSE Min(hits))

Last(lo, hi, P(_), default) ==
    Bind({i \in lo..hi : P(i)},
         LAMBDA hits : IF hits = {} THEN default ELSE Max(hits))

\* \s of the re module, over the characters the model's texts hold
IsSpace(c) == c \in {" ", "\t", "\n"}

\* \w of the re module: letters, digits and the underscore
IsWord(c) == IsDigit(c) \/ IsUpper(c) \/ IsLower(c) \/ c = "_"

DigitVal(c) == CHOOSE v \in 0..9 : At(DigitChars, v + 1) = c

\* the lower-case form of a character, as re.IGNORECASE compares letters
LowerChar(c) ==
    IF IsUpper(c)
    THEN At(LowerChars, CHOOSE i \in 1..26 : At(UpperChars, i) = c)
    ELSE c

\* s holds the literal lit at position i
HasAt(s, i, lit) ==
    /\ i >= 1
    /\ i + Len(lit) - 1 <= Len(s)
    /\ SubSeq(s, i, i + Len(lit) - 1) = lit

\* the same, letters compared without case (lit is given in lower case)
HasAtCI(s, i, lit) ==
    /\ i >= 1
    /\ i + Len(lit) - 1 <= Len(s)
    /\ \A k \in 1..Len(lit) : LowerChar(At(s, i + k - 1)) = At(lit, k)

\* the text of s from position i to its end
From(s, i) == SubSeq(s, i, Len(s))

\* int(s) of a string of decimal digits
RECURSIVE IntOf(_)
IntOf(s) ==
    IF s = "" THEN 0
    ELSE 10 * IntOf(SubSeq(s, 1, Len(s) - 1)) + DigitVal(At(s, Len(s)))

\* str(n) of a natural number: no sign, no leading zero
RECURSIVE StrOf(_)
StrOf(n) ==
    IF n < 10 THEN At(DigitChars, n + 1)
    ELSE StrOf(n \div 10) \o At(DigitChars, (n % 10) + 1)

\* format(n, "04d"): zero-padded to at least 4 digits
RECURSIVE ZeroFill(_)
ZeroFill(s) == IF Len(s) >= 4 THEN s ELSE ZeroFill("0" \o s)

\* a variant that writes the number without padding
FormatUnpadded(n) == StrOf(n)

Format04d(n) == ZeroFill(StrOf(n))

\* str.strip(): leading and trailing whitespace removed
Strip(s) ==
    LET text(i) == ~IsSpace(At(s, i))
    IN  SubSeq(s, First(1, Len(s), text, 1), Last(1, Len(s), text, 0))

\* str.replace(old, new): every occurrence, leftmost first, not overlapping
RECURSIVE Replace(_, _, _)
Replace(s, old, new) ==
    LET hit(i) == HasAt(s, i, old)
    IN  Bind(First(1, Len(s), hit, 0), LAMBDA i :
            IF i = 0 THEN s
            ELSE SubSeq(s, 1, i - 1) \o new
                     \o Bind(From(s, i + Len(old)),
                             LAMBDA rest : Replace(rest, old, new)))

(***************************************************************************)
(* Python values: a str, None, an int (written in decimal), or the mark of *)
(* a key a record does not hold.                                           *)
(***************************************************************************)
Str(s) == [tag |-> "str", val |-> s]
None == [tag |-> "None", val |-> ""]
IntV(s) == [tag |-> "int", val |-> s]
Absent == [tag |-> "absent", val |-> ""]

\* dict.get(key, default): the default only when the key is absent
Get(v, default) == IF v.tag = "absent" THEN default ELSE v

\* dict.get(key): None when the key is absent
Get0(v) == Get(v, None)

\* the truth value of a str or None
Truthy(v) == v.tag = "int" \/ (v.tag = "str" /\ v.val # "")

(***************************************************************************)
(* unescape_html                                                           *)
(***************************************************************************)
\* html.entities.html5, restricted to the names the model's texts can form
Html5Names == {"amp;", "amp", "lt;", "lt", "gt;", "gt", "quot;", "quot", "sol;"}

Html5(name) ==
    CASE name \in {"amp;", "amp"} -> "&"
      [] name \in {"lt;", "lt"} -> "<"
      [] name \in {"gt;", "gt"} -> ">"
      [] name \in {"quot;", "quot"} -> "\""
      [] name = "sol;" -> "/"

\* chr(n) for the code points the model's numeric references name
Chr(n) ==
    CASE n = 38 -> "&"
      [] n = 60 -> "<"
      [] n = 62 -> ">"
      [] OTHER -> "?"

\* the characters a named reference may hold: [^\t\n\f <&#;]
IsNameChar(c) == c \notin {"\t", "\n", "\f", " ", "<", "&", "#", ";"}

\* the length of the run of name characters from position i, at most max
NameRun(s, i, max) ==
    LET other(k) == ~IsNameChar(At(s, k))
        n == First(i, Len(s), other, Len(s) + 1) - i
    IN  IF n > max THEN max ELSE n

\* the length of the run of digits from position i
DigitRun(s, i) ==
    LET other(k) == ~IsDigit(At(s, k))
    IN  IF i < 1 \/ i > Len(s) THEN 0
        ELSE First(i, Len(s), other, Len(s) + 1) - i

\* html._replace_charref for a named reference: the name itself, else the
\* longest prefix of at least 2 characters that is a name, else unchanged
RECURSIVE LongestName(_, _)
LongestName(name, x) ==
    IF x <= 1 THEN "&" \o name
    ELSE IF SubSeq(name, 1, x) \in Html5Names
         THEN Html5(SubSeq(name, 1, x)) \o From(name, x + 1)
         ELSE LongestName(name, x - 1)

ReplaceNamed(name) ==
    IF name \in Html5Names THEN Html5(name)
    ELSE LongestName(name, Len(name) - 1)

\* html.unescape: every match of &(#[0-9]+;?|#[xX]..|[^\t\n\f <&#;]{1,32};?)
\* is replaced, left to right. (No text of the model holds "&#x".)
\* the reference that starts at the "&" at position a: the text it stands
\* for, and the position after it
Charref(s, a) ==
    LET nd == IF HasAt(s, a + 1, "#") THEN DigitRun(s, a + 2) ELSE 0
        nn == NameRun(s, a + 1, 32)
    IN  IF nd > 0
        THEN LET semi == IF HasAt(s, a + 2 + nd, ";") THEN 1 ELSE 0
             IN  [text |-> Chr(IntOf(SubSeq(s, a + 2, a + 1 + nd))),
                  end |-> a + 2 + nd + semi]
        ELSE IF nn > 0
        THEN LET semi == IF HasAt(s, a + 1 + nn, ";") THEN 1 ELSE 0
             IN  [text |-> ReplaceNamed(SubSeq(s, a + 1, a + nn + semi)),
                  end |-> a + 1 + nn + semi]
        ELSE [text |-> "&", end |-> a + 1]

RECURSIVE HtmlUnescape(_)
HtmlUnescape(s) ==
    LET amp(i) == At(s, i) = "&"
    IN  Bind(First(1, Len(s), amp, 0), LAMBDA a :
            IF a = 0 THEN s
            ELSE Bind(Charref(s, a), LAMBDA ref :
                     SubSeq(s, 1, a - 1) \o ref.text
                         \o Bind(From(s, ref.end), HtmlUnescape)))

\* unescape_html(text), text a str or None
unescape_html(text) ==
    IF ~Truthy(text) THEN ""
    ELSE Bind(text.val, LAMBDA t0 :
         Bind(Replace(t0, "&lt;", "<"), LAMBDA t1 :
         Bind(Replace(t1, "&gt;", ">"), LAMBDA t2 :
         Bind(Replace(t2, "&sol;", "/"), LAMBDA t3 :
         Bind(Replace(t3, "&amp;", "&"), LAMBDA t4 :
         Bind(Replace(t4, "&quot;", "\""), HtmlUnescape))))))

(***************************************************************************)
(* _parse_code_list                                                        *)
(***************************************************************************)
\* U+2013 EN DASH, which a TLA+ string cannot hold: "~" stands for it (like
\* the en dash it is no word character, no whitespace and no separator)
EnDash == "~"

\* the span a range may have and still be expanded
MaxSpan == 500

IsSpaceAt(s, i) == i >= 1 /\ i <= Len(s) /\ IsSpace(At(s, i))

\* the first position from i on that holds no whitespace (Len(s) + 1 if none)
SkipSpace(s, i) ==
    LET other(k) == ~IsSpace(At(s, k))
    IN  IF i > Len(s) THEN i ELSE First(i, Len(s), other, Len(s) + 1)

\* re.sub(r"\band\b", ",", s, flags=re.IGNORECASE), from position i on
RECURSIVE SubAnd(_, _)
SubAnd(s, i) ==
    LET hit(k) ==
            /\ HasAtCI(s, k, "and")
            /\ (k = 1 \/ ~IsWord(At(s, k - 1)))
            /\ (k + 3 > Len(s) \/ ~IsWord(At(s, k + 3)))
    IN  Bind(First(i, Len(s), hit, 0), LAMBDA h :
            IF h = 0 THEN From(s, i)
            ELSE SubSeq(s, i, h - 1) \o "," \o SubAnd(s, h + 3))

IsSep(c) == c \in {",", "/"}

\* re.split(r"[,/]+", s), from position i on: the pieces between the runs of
\* separators, the empty piece before a leading run and after a trailing
\* one included
RECURSIVE SplitSeps(_, _)
SplitSeps(s, i) ==
    LET sep(k) == IsSep(At(s, k))
        other(k) == ~IsSep(At(s, k))
    IN  Bind(First(i, Len(s), sep, 0), LAMBDA k :
            IF k = 0 THEN <<From(s, i)>>
            ELSE <<SubSeq(s, i, k - 1)>>
                     \o Bind(First(k, Len(s), other, Len(s) + 1),
                             LAMBDA j : SplitSeps(s, j)))

IsDash(c) == c \in {"-", EnDash}

\* a variant that admits spans of up to twice MaxSpan
WithinTwiceSpan(start, end) == end - start <= 2 * MaxSpan

\* lines 71 and 80: the sanity check of a range
WithinSpan(start, end) == end - start <= MaxSpan

\* a variant that leaves the end out
RangeBelow(start, end) ==
    IF end <= start THEN <<>>
    ELSE [k \in 1..(end - start) |-> start + k - 1]

\* range(start, end + 1)
RangeTo(start, end) ==
    IF end < start THEN <<>>
    ELSE [k \in 1..(end - start + 1) |-> start + k - 1]

\* the numbers of range(start, end + 1), each written by fmt
Expand(start, end, fmt(_)) ==
    Bind(RangeTo(start, end), LAMBDA numbers :
        IF numbers = <<>> THEN <<>>
        ELSE [k \in 1..Len(numbers) |-> fmt(numbers[k])])

\* the codes one stripped, non-empty part of the list contributes
ParsePart(part) ==
    LET \* ^(\d{4,5})\s*[-–]\s*(\d{4,5})$
        n1 == DigitRun(part, 1)
        p == SkipSpace(part, n1 + 1)
        q == SkipSpace(part, p + 1)
        n2 == DigitRun(part, q)
        range_match ==
            /\ n1 \in {4, 5}
            /\ p <= Len(part) /\ IsDash(At(part, p))
            /\ n2 \in {4, 5}
            /\ q + n2 - 1 = Len(part)
        \* ^([A-Z])(\d{4})\s*[-–]\s*([A-Z])(\d{4})$
        ap == SkipSpace(part, 6)
        aq == SkipSpace(part, ap + 1)
        alpha_range ==
            /\ Len(part) >= 1 /\ IsUpper(At(part, 1))
            /\ DigitRun(part, 2) = 4
            /\ ap <= Len(part) /\ IsDash(At(part, ap))
            /\ aq <= Len(part) /\ IsUpper(At(part, aq))
            /\ DigitRun(part, aq + 1) = 4
            /\ aq + 4 = Len(part)
        \* ^([A-Z]?\d{4,5})$
        d0 == IF Len(part) >= 1 /\ IsUpper(At(part, 1)) THEN 2 ELSE 1
        single ==
            /\ DigitRun(part, d0) \in {4, 5}
            /\ d0 + DigitRun(part, d0) - 1 = Len(part)
    IN  IF range_match
        THEN Bind(IntOf(SubSeq(part, 1, n1)), LAMBDA start :
             Bind(IntOf(SubSeq(part, q, q + n2 - 1)), LAMBDA end :
                 IF WithinSpan(start, end)
                 THEN Expand(start, end, StrOf)
                 ELSE <<>>))
        ELSE IF alpha_range /\ At(part, 1) = At(part, aq)
        THEN Bind(IntOf(SubSeq(part, 2, 5)), LAMBDA start :
             Bind(IntOf(SubSeq(part, aq + 1, aq + 4)), LAMBDA end :
                 LET prefix == At(part, 1)
                     code(c) == prefix \o Format04d(c)
                 IN  IF WithinSpan(start, end)
                     THEN Expand(start, end, code)
                     ELSE <<>>))
        ELSE IF single THEN <<part>>
        ELSE <<>>

\* the loop over the parts, from the i-th on
RECURSIVE ParseParts(_, _)
ParseParts(parts, i) ==
    IF i > Len(parts) THEN <<>>
    ELSE Bind(Strip(parts[i]), LAMBDA part :
             IF part = "" THEN <<>> ELSE ParsePart(part))
             \o ParseParts(parts, i + 1)

\* _parse_code_list(code_str)
parse_code_list(code_str) ==
    Bind(SubAnd(code_str, 1), LAMBDA replaced :
    Bind(SplitSeps(replaced, 1), LAMBDA parts : ParseParts(parts, 1)))

(***************************************************************************)
(* extract_cpt_codes_from_paragraph                                        *)
(***************************************************************************)
\* re.sub(r"<[^>]+>", " ", text)
RECURSIVE StripTags(_)
StripTags(s) ==
    LET close(k) == At(s, k) = ">"
        tag(i) ==
            /\ At(s, i) = "<"
            /\ i + 1 <= Len(s) /\ At(s, i + 1) # ">"
            /\ First(i + 2, Len(s), close, 0) # 0
    IN  Bind(First(1, Len(s), tag, 0), LAMBDA i :
            IF i = 0 THEN s
            ELSE SubSeq(s, 1, i - 1) \o " "
                     \o Bind(From(s, First(i + 2, Len(s), close, 0) + 1),
                             StripTags))

\* The primary pattern, matched without case:
\*   (?:CPT/?HCPCS|CPT|HCPCS)\s+codes?\s+([\w\d,\s\-/and]+?)
\*   (?:\s+(?:is|are|when|for|if|,\s*(?:CPT|HCPCS))|[.;:\(]|$)
Keywords == <<"cpt/hcpcs", "cpthcpcs", "cpt", "hcpcs">>
Boundaries == <<"is", "are", "when", "for", "if">>

\* [\w\d,\s\-/and]
InClass(c) == IsWord(c) \/ IsSpace(c) \/ c \in {",", "-", "/"}

\* the first boundary word at position w, as an index of Boundaries, or 0
RECURSIVE BoundaryAt(_, _, _)
BoundaryAt(s, w, k) ==
    IF k > Len(Boundaries) THEN 0
    ELSE IF HasAtCI(s, w, Boundaries[k]) THEN k
    ELSE BoundaryAt(s, w, k + 1)

\* the terminator of a code list at position e: the position after it, or 0
\* when none matches there; $ matches at the end of the text and before a
\* final line break, and takes no character
Term(s, e) ==
    IF IsSpaceAt(s, e)
    THEN Bind(SkipSpace(s, e), LAMBDA w :
         Bind(BoundaryAt(s, w, 1), LAMBDA k :
         Bind(SkipSpace(s, w + 1), LAMBDA c :
             IF k > 0 THEN w + Len(Boundaries[k])
             ELSE IF HasAt(s, w, ",") /\ HasAtCI(s, c, "cpt") THEN c + 3
             ELSE IF HasAt(s, w, ",") /\ HasAtCI(s, c, "hcpcs") THEN c + 5
             ELSE IF e = Len(s) /\ At(s, e) = "\n" THEN e
             ELSE 0)))
    ELSE IF e <= Len(s) /\ At(s, e) \in {".", ";", ":", "("} THEN e + 1
    ELSE IF e = Len(s) + 1 THEN e
    ELSE 0

\* the lazy group from position g: its least end e (exclusive) at which the
\* terminator matches, the characters g..e-1 being of the class; 0 if none
GroupFrom(s, g) ==
    LET other(k) == ~InClass(At(s, k))
        limit == First(g, Len(s), other, Len(s) + 1)
        term(e) == Term(s, e) # 0
    IN  First(g + 1, limit, term, 0)

\* the greedy \s+ before the group gives back one whitespace at a time: the
\* group starts at g, then g - 1, ... down to lo
RECURSIVE TryGroup(_, _, _)
TryGroup(s, g, lo) ==
    IF g < lo THEN [ok |-> FALSE, gs |-> 0, ge |-> 0, end |-> 0]
    ELSE Bind(GroupFrom(s, g), LAMBDA e :
             IF e # 0
             THEN [ok |-> TRUE, gs |-> g, ge |-> e, end |-> Term(s, e)]
             ELSE TryGroup(s, g - 1, lo))

\* \s+codes?\s+ and the rest, from position j (after the keyword)
AfterKeyword(s, j) ==
    LET a == SkipSpace(s, j)
        b == IF HasAtCI(s, a + 4, "s") /\ IsSpaceAt(s, a + 5)
             THEN a + 5 ELSE a + 4
    IN  IF a > j /\ HasAtCI(s, a, "code") /\ IsSpaceAt(s, b)
        THEN Bind(SkipSpace(s, b), LAMBDA g : TryGroup(s, g, b + 1))
        ELSE [ok |-> FALSE, gs |-> 0, ge |-> 0, end |-> 0]

\* the match of the pattern that starts at position i, the alternatives of
\* the keyword tried in order
RECURSIVE MatchAt(_, _, _)
MatchAt(s, i, k) ==
    IF k > Len(Keywords) THEN [ok |-> FALSE, gs |-> 0, ge |-> 0, end |-> 0]
    ELSE Bind(IF HasAtCI(s, i, Keywords[k])
              THEN AfterKeyword(s, i + Len(Keywords[k]))
              ELSE [ok |-> FALSE, gs |-> 0, ge |-> 0, end |-> 0],
              LAMBDA m : IF m.ok THEN m ELSE MatchAt(s, i, k + 1))

\* re.finditer(pattern, text, re.IGNORECASE) from position i on, and per
\* match codes.extend(_parse_code_list(match.group(1).strip()))
RECURSIVE PrimaryCodes(_, _)
PrimaryCodes(s, i) ==
    LET hit(k) == MatchAt(s, k, 1).ok
    IN  Bind(First(i, Len(s), hit, 0), LAMBDA h :
            IF h = 0 THEN <<>>
            ELSE Bind(MatchAt(s, h, 1), LAMBDA m :
                     Bind(Strip(SubSeq(s, m.gs, m.ge - 1)), parse_code_list)
                         \o PrimaryCodes(s, m.end)))

\* re.finditer(r"\b([A-Z]\d{4})\b", text), each code kept once
BareAt(s, i) ==
    /\ IsUpper(At(s, i))
    /\ (i = 1 \/ ~IsWord(At(s, i - 1)))
    /\ DigitRun(s, i + 1) >= 4
    /\ (i + 5 > Len(s) \/ ~IsWord(At(s, i + 5)))

RECURSIVE BareCodes(_, _, _)
BareCodes(s, i, codes) ==
    LET hit(k) == BareAt(s, k)
    IN  Bind(First(i, Len(s), hit, 0), LAMBDA h :
            IF h = 0 THEN codes
            ELSE Bind(SubSeq(s, h, h + 4), LAMBDA code :
                 Bind(IF \E k \in 1..Len(codes) : codes[k] = code
                      THEN codes ELSE Append(codes, code),
                      LAMBDA more : BareCodes(s, h + 5, more))))

\* the text the patterns are matched on
SearchText(paragraph_html) == Bind(unescape_html(paragraph_html), StripTags)

\* extract_cpt_codes_from_paragraph(paragraph_html), a str or None
extract_cpt_codes_from_paragraph(paragraph_html) ==
    IF ~Truthy(paragraph_html) THEN <<>>
    ELSE Bind(SearchText(paragraph_html), LAMBDA text :
         Bind(PrimaryCodes(text, 1), LAMBDA codes :
             IF codes = <<>> THEN BareCodes(text, 1, <<>>) ELSE codes))

(***************************************************************************)
(* Dicts: sequences of entries [key, val] in insertion order                *)
(***************************************************************************)
HasKey(d, k) == \E i \in 1..Len(d) : d[i].key = k

KeyIndex(d, k) == CHOOSE i \in 1..Len(d) : d[i].key = k

\* d[k] = v: a new key goes last, a present key keeps its place
DictSet(d, k, v) ==
    IF HasKey(d, k) THEN [d EXCEPT ![KeyIndex(d, k)].val = v]
    ELSE Append(d, [key |-> k, val |-> v])

\* a variant that never finds the key
DictGetMissing(d, k, default) == default

\* d.get(k, default)
DictGet(d, k, default) ==
    IF HasKey(d, k) THEN d[KeyIndex(d, k)].val ELSE default

\* d.setdefault(k, []).append(x) and .extend(xs)
DictExtend(d, k, xs) == DictSet(d, k, DictGet(d, k, <<>>) \o xs)

DictKeys(d) == [i \in 1..Len(d) |-> d[i].key]

(***************************************************************************)
(* build_cpt_icd10_mapping                                                 *)
(***************************************************************************)
NoIndex == [raised |-> FALSE, index |-> <<>>]
Raised == [raised |-> TRUE, index |-> <<>>]

\* lines 120-128: hcpc_by_id, or the AttributeError of .strip() on a value
\* that is no str
RECURSIVE IndexHcpc(_, _, _)
IndexHcpc(hcpc, i, acc) ==
    IF i > Len(hcpc) \/ acc.raised THEN acc
    ELSE LET h == hcpc[i]
             id == Get(h.hcpc_code_id, Str(""))
             cid == Strip(id.val)
             long == Get0(h.long_description)
             description ==
                 IF Truthy(long) THEN long
                 ELSE Get(h.short_description, Str(""))
             info == [code |-> cid, description |-> description,
                      group |-> Get0(h.hcpc_code_group)]
         IN  IF id.tag # "str" THEN Raised
             ELSE Bind(IF cid # ""
                       THEN [acc EXCEPT !.index = DictSet(@, cid, info)]
                       ELSE acc,
                       LAMBDA more : IndexHcpc(hcpc, i + 1, more))

\* a variant that indexes a record without a group under the null key
RECURSIVE IndexIcd10EvenNull(_, _, _)
IndexIcd10EvenNull(covered, i, acc) ==
    IF i > Len(covered) \/ acc.raised THEN acc
    ELSE LET ic == covered[i]
             grp == Get0(ic.icd10_covered_group)
             id == Get(ic.icd10_code_id, Str(""))
             entry == [code |-> Strip(id.val),
                       description |-> Get(ic.description, Str("")),
                       asterisk |-> Get(ic.asterisk, Str(""))]
         IN  IF id.tag # "str" THEN Raised
             ELSE Bind([acc EXCEPT !.index = DictExtend(@, grp, <<entry>>)],
                       LAMBDA more : IndexIcd10EvenNull(covered, i + 1, more))

\* lines 131-140: icd10_by_group
RECURSIVE IndexIcd10(_, _, _)
IndexIcd10(covered, i, acc) ==
    IF i > Len(covered) \/ acc.raised THEN acc
    ELSE LET ic == covered[i]
             grp == Get0(ic.icd10_covered_group)
             id == Get(ic.icd10_code_id, Str(""))
             entry == [code |-> Strip(id.val),
                       description |-> Get(ic.description, Str("")),
                       asterisk |-> Get(ic.asterisk, Str(""))]
         IN  IF id.tag # "str" THEN Raised
             ELSE Bind(IF grp # None
                       THEN [acc EXCEPT
                                !.index = DictExtend(@, grp, <<entry>>)]
                       ELSE acc,
                       LAMBDA more : IndexIcd10(covered, i + 1, more))

\* the orders in which a set of strings may be iterated: the order follows
\* the strings' hashes, which are salted anew in every interpreter process
Orders(keys) ==
    {o \in [1..Len(keys) -> 1..Len(keys)] :
        \A i, j \in 1..Len(keys) : i # j => o[i] # o[j]}

\* a variant that loses the key iterated last
ReorderButLast(keys, o) == [i \in 1..(Len(keys) - 1) |-> keys[o[i]]]

Reorder(keys, o) == [i \in 1..Len(keys) |-> keys[o[i]]]

\* a variant that extends the list of the first code only
AssociateFirst(acc, cpts, i, icd10_list) ==
    IF cpts = <<>> THEN acc ELSE DictExtend(acc, cpts[1], icd10_list)

\* lines 160-166: one extend per code, in the order given
RECURSIVE Associate(_, _, _, _)
Associate(acc, cpts, i, icd10_list) ==
    IF i > Len(cpts) THEN acc
    ELSE Bind(DictExtend(acc, cpts[i], icd10_list),
              LAMBDA more : Associate(more, cpts, i + 1, icd10_list))

\* a variant that keeps the last entry of every code and not the first
KeepLast(icd_list, i, seen, deduped) ==
    LET last(k) == \A j \in (k + 1)..Len(icd_list) :
                       icd_list[j].code # icd_list[k].code
        kept == {k \in 1..Len(icd_list) : last(k)}
        nth(n) == CHOOSE k \in kept : Cardinality({j \in kept : j < k}) = n - 1
    IN  [n \in 1..Cardinality(kept) |-> icd_list[nth(n)]]

\* lines 172-177: the first entry of every code
RECURSIVE Dedupe(_, _, _, _)
Dedupe(icd_list, i, seen, deduped) ==
    IF i > Len(icd_list) THEN deduped
    ELSE LET ic == icd_list[i]
         IN  IF ic.code \notin seen
             THEN Bind(seen \cup {ic.code}, LAMBDA seen1 :
                  Bind(Append(deduped, ic), LAMBDA deduped1 :
                      Dedupe(icd_list, i + 1, seen1, deduped1)))
             ELSE Dedupe(icd_list, i + 1, seen, deduped)

\* a variant that leaves out the codes that are not in the procedure index
ByCptIndexedOnly(assoc, index) ==
    LET kept == {i \in 1..Len(assoc) : HasKey(index, assoc[i].key)}
        nth(n) == CHOOSE i \in kept : Cardinality({j \in kept : j < i}) = n - 1
    IN  [n \in 1..Cardinality(kept) |->
            [key |-> assoc[nth(n)].key,
             val |-> [code |-> assoc[nth(n)].key,
                      description |->
                          DictGet(index, assoc[nth(n)].key, <<>>).description,
                      icd10_codes |->
                          Dedupe(assoc[nth(n)].val, 1, {}, <<>>)]]]

\* lines 169-183: the by_cpt view of cpt_to_icd10
ByCpt(assoc, index) ==
    [i \in 1..Len(assoc) |->
        LET cpt_code == assoc[i].key
            info == DictGet(index, cpt_code,
                        [code |-> cpt_code, description |-> Str("")])
        IN  [key |-> cpt_code,
             val |-> [code |-> cpt_code,
                      description |-> info.description,
                      icd10_codes |-> Dedupe(assoc[i].val, 1, {}, <<>>)]]]

(***************************************************************************)
(* build_icd10_to_cpt_mapping                                              *)
(***************************************************************************)
\* a variant that enters a diagnosis code once, under the first procedure
\* code that lists it, and never adds a second procedure code
ReverseFirst(rev, cpt_info, i) ==
    LET fresh == {k \in 1..Len(cpt_info.icd10_codes) :
                     ~HasKey(rev, cpt_info.icd10_codes[k].code)}
        nth(n) == CHOOSE k \in fresh :
                      Cardinality({j \in fresh : j < k}) = n - 1
    IN  rev \o [n \in 1..Cardinality(fresh) |->
                   [key |-> cpt_info.icd10_codes[nth(n)].code,
                    val |-> [code |-> cpt_info.icd10_codes[nth(n)].code,
                             description |->
                                 cpt_info.icd10_codes[nth(n)].description,
                             cpt_codes |->
                                 <<[code |-> cpt_info.code,
                                    description |-> cpt_info.description]>>]]]

\* lines 205-217, for one by_cpt entry
RECURSIVE ReverseOne(_, _, _)
ReverseOne(rev, cpt_info, i) ==
    IF i > Len(cpt_info.icd10_codes) THEN rev
    ELSE LET icd == cpt_info.icd10_codes[i]
             icd_code == icd.code
             made == IF HasKey(rev, icd_code) THEN rev
                     ELSE DictSet(rev, icd_code,
                              [code |-> icd_code,
                               description |-> icd.description,
                               cpt_codes |-> <<>>])
             cur == DictGet(made, icd_code, <<>>)
             listed == \E k \in 1..Len(cur.cpt_codes) :
                           cur.cpt_codes[k].code = cpt_info.code
             next == IF listed THEN made
                     ELSE DictSet(made, icd_code,
                              [cur EXCEPT !.cpt_codes =
                                  Append(@, [code |-> cpt_info.code,
                                             description |->
                                                 cpt_info.description])])
         IN  Bind(next, LAMBDA more : ReverseOne(more, cpt_info, i + 1))

\* a variant that goes through the by_cpt entries from the last to the first
RECURSIVE ReverseBackwards(_, _, _)
ReverseBackwards(rev, forward, i) ==
    IF i > Len(forward) THEN rev
    ELSE Bind(ReverseOne(rev, forward[Len(forward) + 1 - i].val, 1),
              LAMBDA more : ReverseBackwards(more, forward, i + 1))

\* lines 202-219
RECURSIVE Reverse(_, _, _)
Reverse(rev, forward, i) ==
    IF i > Len(forward) THEN rev
    ELSE Bind(ReverseOne(rev, forward[i].val, 1),
              LAMBDA more : Reverse(more, forward, i + 1))

(***************************************************************************)
(* State                                                                   *)
(***************************************************************************)
VARIABLES
    pc,                     \* the position of the operation under way
    raw,                    \* unescape_html: the text given (a str or None)
    once,                   \* unescape_html(raw)
    twice,                  \* unescape_html(once)
    hcpc_codes,             \* the procedure records given
    icd10_covered,          \* the diagnosis records given
    icd10_covered_groups,   \* the coverage-group records given
    hcpc_by_id,             \* dict: code -> {code, description, group}
    icd10_by_group,         \* dict: group id -> list of diagnosis entries
    all_hcpc_ids,           \* the set of the codes, in its iteration order
    groups,                 \* the list of the groups processed
    cpt_to_icd10,           \* dict: code -> list of diagnosis entries
    by_cpt,                 \* dict: code -> {code, description, icd10_codes}
    reverse,                \* dict: diagnosis code -> {.., cpt_codes}
    run,                    \* the number of the interpreter process
    first,                  \* what the first process returned
    token,                  \* the range written in the code list
    before,                 \* the single codes written before it
    after,                  \* the single codes written after it
    code_list,              \* _parse_code_list: the code_str given
    parsed,                 \* _parse_code_list(code_list)
    phrase,                 \* the paragraph_html: the list in a phrase
    extracted,              \* extract_cpt_codes_from_paragraph of it
    pieces,                 \* the sentences a paragraph is written from
    para,                   \* extract_cpt_codes_from_paragraph: its argument
    plain,                  \* line 32: the text, unescaped and without tags
    primary,                \* line 40: codes after the loop over the matches
    result,                 \* what the call returns
    tasks,                  \* codes.py line 125: the locals of every build
    set_order               \* the order in which this process iterates the
                            \* set of the procedure codes

normVars == <<raw, once, twice>>
inputVars == <<hcpc_codes, icd10_covered, icd10_covered_groups>>
buildVars == <<hcpc_by_id, icd10_by_group, all_hcpc_ids, groups,
               cpt_to_icd10, by_cpt, reverse>>
runVars == <<run, first>>
parseVars == <<token, before, after, code_list, parsed, phrase,
               extracted>>
extractVars == <<pieces, para, plain, primary, result>>
taskVars == <<tasks, set_order>>
vars == <<pc, normVars, inputVars, buildVars, runVars, parseVars,
          extractVars, taskVars>>

NoNorm == raw = None /\ once = "" /\ twice = ""

NoBuild ==
    /\ hcpc_by_id = <<>>
    /\ icd10_by_group = <<>>
    /\ all_hcpc_ids = <<>>
    /\ groups = <<>>
    /\ cpt_to_icd10 = <<>>
    /\ by_cpt = <<>>
    /\ reverse = <<>>

NoToken == [lo |-> "", dash |-> "", hi |-> ""]

NoParse ==
    /\ token = NoToken
    /\ before = <<>>
    /\ after = <<>>
    /\ code_list = ""
    /\ parsed = <<>>
    /\ phrase = None
    /\ extracted = <<>>

NoExtract ==
    /\ pieces = <<>>
    /\ para = None
    /\ plain = ""
    /\ primary = <<>>
    /\ result = <<>>

NoTasks ==
    /\ tasks = <<>>
    /\ set_order = <<>>

NoInput ==
    /\ hcpc_codes = <<>>
    /\ icd10_covered = <<>>
    /\ icd10_covered_groups = <<>>
    /\ run = 1
    /\ first = <<>>

(***************************************************************************)
(* The records of an article                                               *)
(***************************************************************************)
\* the records of an article, over its three lists, at most
MaxRecords == 4

Hcpc(id, long, short, group) ==
    [hcpc_code_id |-> id, long_description |-> long,
     short_description |-> short, hcpc_code_group |-> group]

Icd10(id, description, asterisk, group) ==
    [icd10_code_id |-> id, description |-> description,
     asterisk |-> asterisk, icd10_covered_group |-> group]

Group(group, paragraph) ==
    [icd10_covered_group |-> group, paragraph |-> paragraph]

HcpcRecords ==
    {Hcpc(Str("81235"), Str("EGFR gene analysis"), Absent, Absent),
     Hcpc(Str(" 81236 "), Str(""), Str("BRAF"), IntV("1")),
     Hcpc(Str("81235"), None, Str("EGFR, short"), Absent),
     Hcpc(None, Str("no code"), Absent, Absent),
     Hcpc(Absent, Absent, Absent, Absent)}

Icd10Records ==
    {Icd10(Str("C34.10"), Str("Lung cancer"), Absent, IntV("1")),
     Icd10(Str(" C50.911"), None, Str("*"), IntV("1")),
     Icd10(Str("C34.10"), Str("Lung, other"), Str("*"), IntV("2")),
     Icd10(Str("Z85.3"), Str("History"), Absent, None),
     Icd10(None, Absent, Absent, IntV("2")),
     Icd10(Absent, Str(""), Absent, Absent)}

GroupRecords ==
    {Group(IntV("1"), Str("CPT code 81235 is covered for...")),
     Group(IntV("2"), Str("Covered diagnoses.")),
     Group(IntV("1"),
           Str("&lt;p&gt;HCPCS codes J9271, 81236 and 81235 are payable&lt;&sol;p&gt;")),
     Group(IntV("2"), Str("CPT codes 81235-81236.")),
     Group(Absent, None),
     Group(IntV("2"), Str("Drug J9271 with 81235"))}

\* extract_cpt_codes_from_paragraph and unescape_html of the paragraphs of
\* the model's records, each computed once
Paragraphs == {Get(g.paragraph, Str("")) : g \in GroupRecords}
ExtractedCodes == [p \in Paragraphs |-> extract_cpt_codes_from_paragraph(p)]
Unescaped == [p \in Paragraphs |-> unescape_html(p)]

InitBuild ==
    /\ pc = "index_hcpc"
    /\ \E nh \in 0..MaxRecords :
       \E ni \in 0..(MaxRecords - nh) :
       \E ng \in 0..(MaxRecords - nh - ni) :
           /\ hcpc_codes \in [1..nh -> HcpcRecords]
           /\ icd10_covered \in [1..ni -> Icd10Records]
           /\ icd10_covered_groups \in [1..ng -> GroupRecords]
    /\ NoBuild
    /\ NoNorm
    /\ NoParse
    /\ NoExtract
    /\ NoTasks
    /\ run = 1
    /\ first = <<>>

(***************************************************************************)
(* build_icd10_to_cpt_mapping, which starts with build_cpt_icd10_mapping   *)
(***************************************************************************)
\* lines 120-128
IndexHcpcCodes ==
    /\ pc = "index_hcpc"
    /\ LET r == IndexHcpc(hcpc_codes, 1, NoIndex)
       IN  /\ pc' = IF r.raised THEN "raised" ELSE "index_icd10"
           /\ hcpc_by_id' = r.index
    /\ UNCHANGED <<icd10_by_group, all_hcpc_ids, groups, cpt_to_icd10,
                   by_cpt, reverse>>
    /\ UNCHANGED <<normVars, inputVars, runVars, parseVars, extractVars,
                   taskVars>>

\* lines 131-140
IndexIcd10Covered ==
    /\ pc = "index_icd10"
    /\ LET r == IndexIcd10(icd10_covered, 1, NoIndex)
       IN  /\ pc' = IF r.raised THEN "raised" ELSE "id_set"
           /\ icd10_by_group' = r.index
    /\ UNCHANGED <<hcpc_by_id, all_hcpc_ids, groups, cpt_to_icd10,
                   by_cpt, reverse>>
    /\ UNCHANGED <<normVars, inputVars, runVars, parseVars, extractVars,
                   taskVars>>

\* line 143: all_hcpc_ids = set(hcpc_by_id.keys())
MakeIdSet ==
    /\ pc = "id_set"
    /\ \E o \in Orders(DictKeys(hcpc_by_id)) :
           all_hcpc_ids' = Reorder(DictKeys(hcpc_by_id), o)
    /\ pc' = "groups"
    /\ UNCHANGED <<hcpc_by_id, icd10_by_group, groups, cpt_to_icd10,
                   by_cpt, reverse>>
    /\ UNCHANGED <<normVars, inputVars, runVars, parseVars, extractVars,
                   taskVars>>

\* a variant that gives the diagnosis codes of every group to all the
\* procedure codes of the article as well
ProcessGroupAll ==
    /\ pc = "groups"
    /\ Len(groups) < Len(icd10_covered_groups)
    /\ LET grp == icd10_covered_groups[Len(groups) + 1]
           grp_num == Get0(grp.icd10_covered_group)
           paragraph == Get(grp.paragraph, Str(""))
           extracted_cpts == ExtractedCodes[paragraph]
           icd10_list == DictGet(icd10_by_group, grp_num, <<>>)
       IN  /\ groups' = Append(groups,
                  [group_num |-> grp_num,
                   paragraph |-> Unescaped[paragraph],
                   cpt_codes |-> extracted_cpts,
                   icd10_codes |-> icd10_list])
           /\ cpt_to_icd10' =
                  Associate(cpt_to_icd10, extracted_cpts \o all_hcpc_ids, 1,
                            icd10_list)
    /\ UNCHANGED <<pc, hcpc_by_id, icd10_by_group, all_hcpc_ids, by_cpt,
                   reverse>>
    /\ UNCHANGED <<normVars, inputVars, runVars, parseVars, extractVars,
                   taskVars>>

\* lines 147-166, for the next group
ProcessGroup ==
    /\ pc = "groups"
    /\ Len(groups) < Len(icd10_covered_groups)
    /\ LET grp == icd10_covered_groups[Len(groups) + 1]
           grp_num == Get0(grp.icd10_covered_group)
           paragraph == Get(grp.paragraph, Str(""))
           extracted_cpts == ExtractedCodes[paragraph]
           icd10_list == DictGet(icd10_by_group, grp_num, <<>>)
       IN  /\ groups' = Append(groups,
                  [group_num |-> grp_num,
                   paragraph |-> Unescaped[paragraph],
                   cpt_codes |-> extracted_cpts,
                   icd10_codes |-> icd10_list])
           /\ cpt_to_icd10' =
                  IF extracted_cpts # <<>>
                  THEN Associate(cpt_to_icd10, extracted_cpts, 1, icd10_list)
                  ELSE Associate(cpt_to_icd10, all_hcpc_ids, 1, icd10_list)
    /\ UNCHANGED <<pc, hcpc_by_id, icd10_by_group, all_hcpc_ids, by_cpt,
                   reverse>>
    /\ UNCHANGED <<normVars, inputVars, runVars, parseVars, extractVars,
                   taskVars>>

\* lines 169-189: the by_cpt view, and the return
BuildByCpt ==
    /\ pc = "groups"
    /\ Len(groups) = Len(icd10_covered_groups)
    /\ by_cpt' = ByCpt(cpt_to_icd10, hcpc_by_id)
    /\ pc' = "reverse"
    /\ UNCHANGED <<hcpc_by_id, icd10_by_group, all_hcpc_ids, groups,
                   cpt_to_icd10, reverse>>
    /\ UNCHANGED <<normVars, inputVars, runVars, parseVars, extractVars,
                   taskVars>>

\* lines 202-219
BuildReverse ==
    /\ pc = "reverse"
    /\ reverse' = Reverse(<<>>, by_cpt, 1)
    /\ pc' = "done"
    /\ UNCHANGED <<hcpc_by_id, icd10_by_group, all_hcpc_ids, groups,
                   cpt_to_icd10, by_cpt>>
    /\ UNCHANGED <<normVars, inputVars, runVars, parseVars, extractVars,
                   taskVars>>

NextBuild ==
    \/ IndexHcpcCodes
    \/ IndexIcd10Covered
    \/ MakeIdSet
    \/ ProcessGroup
    \/ BuildByCpt
    \/ BuildReverse

Spec == InitBuild /\ [][NextBuild]_vars

\* the same records given to a second interpreter process
RunAgain ==
    /\ pc = "done"
    /\ run = 1
    /\ first' = [by_cpt |-> by_cpt, reverse |-> reverse]
    /\ run' = 2
    /\ pc' = "index_hcpc"
    /\ hcpc_by_id' = <<>>
    /\ icd10_by_group' = <<>>
    /\ all_hcpc_ids' = <<>>
    /\ groups' = <<>>
    /\ cpt_to_icd10' = <<>>
    /\ by_cpt' = <<>>
    /\ reverse' = <<>>
    /\ UNCHANGED <<normVars, inputVars, parseVars, extractVars, taskVars>>

NextRuns == NextBuild \/ RunAgain

SpecRuns == InitBuild /\ [][NextRuns]_vars

(***************************************************************************)
(* The normalizer applied to its own output                                *)
(***************************************************************************)
\* how often the upstream encoder is applied to a text, at most
MaxEscapes == 3

\* the upstream encoding of a text: & < > / " written as named entities
EscapeChar(c) ==
    CASE c = "&" -> "&amp;"
      [] c = "<" -> "&lt;"
      [] c = ">" -> "&gt;"
      [] c = "/" -> "&sol;"
      [] c = "\"" -> "&quot;"
      [] OTHER -> c

RECURSIVE EscapeRange(_, _, _)
EscapeRange(s, lo, hi) ==
    IF lo > hi THEN ""
    ELSE IF lo = hi THEN EscapeChar(At(s, lo))
    ELSE EscapeRange(s, lo, (lo + hi) \div 2)
             \o EscapeRange(s, (lo + hi) \div 2 + 1, hi)

Escape(s) == EscapeRange(s, 1, Len(s))

RECURSIVE EscapeN(_, _)
EscapeN(s, k) == IF k = 0 THEN s ELSE Escape(EscapeN(s, k - 1))

\* texts that hold no entity reference
PlainTexts ==
    {"", "81235", "R&D", "a & b", "a<b", "x > y", "1/2", "say \"hi\"",
     "<p>CPT code 81235</p>", "&", "P&L <i>net</i>", "AT&T;"}

\* texts with references the encoder does not write: no semicolon, a
\* numeric reference, a name glued to the next one
OddTexts ==
    {"&amp", "&lt", "&ampx", "&amplt;", "&#38;", "&#38;lt;", "&#38;amp;",
     "&amp;#38;", "&#60;b&#62;", "&sol", "&quot"}

NormInputs ==
    {Str(EscapeN(t, k)) : t \in PlainTexts, k \in 0..MaxEscapes}
        \cup {Str(t) : t \in OddTexts} \cup {None}

InitNorm ==
    /\ pc = "norm"
    /\ raw \in NormInputs
    /\ once = ""
    /\ twice = ""
    /\ NoInput
    /\ NoBuild
    /\ NoParse
    /\ NoExtract
    /\ NoTasks

NormOnce ==
    /\ pc = "norm"
    /\ once' = unescape_html(raw)
    /\ pc' = "norm_again"
    /\ UNCHANGED <<raw, twice, inputVars, buildVars, runVars, parseVars,
                   extractVars, taskVars>>

NormTwice ==
    /\ pc = "norm_again"
    /\ twice' = unescape_html(Str(once))
    /\ pc' = "norm_done"
    /\ UNCHANGED <<raw, once, inputVars, buildVars, runVars, parseVars,
                   extractVars, taskVars>>

NextNorm == NormOnce \/ NormTwice

SpecNorm == InitNorm /\ [][NextNorm]_vars

(***************************************************************************)
(* A range in a code list: the list parsed, and extracted from a phrase    *)
(***************************************************************************)
\* the single codes written in a list beside the range, at most
MaxOthers == 1

NumEnds ==
    {"00100", "00105", "1000", "1500", "1501", "81162", "81167", "10000",
     "99999"}

AlphaEnds == {"J9271", "J9275", "K9275", "J0009", "J0012", "J0510"}

\* a hyphen, a hyphen in spaces, an en dash
Dashes == {"-", " - ", EnDash}

Tokens ==
    {[lo |-> lo, dash |-> d, hi |-> hi] :
        lo \in NumEnds, hi \in NumEnds, d \in Dashes}
    \cup
    {[lo |-> lo, dash |-> d, hi |-> hi] :
        lo \in AlphaEnds, hi \in AlphaEnds, d \in Dashes}

Singles == {"81212", "J9299"}

\* how a list is punctuated and the phrase around it
Styles ==
    {[sep |-> ", ", intro |-> "CPT codes ", outro |-> " are covered."],
     [sep |-> " and ", intro |-> "<p>HCPCS code ", outro |-> "</p>"],
     [sep |-> "/", intro |-> "see CPT/HCPCS codes ", outro |-> "; or none"]}

RECURSIVE Join(_, _)
Join(parts, sep) ==
    IF Len(parts) = 1 THEN Head(parts)
    ELSE Head(parts) \o sep \o Join(Tail(parts), sep)

InitParse ==
    /\ pc = "parse"
    /\ token \in Tokens
    /\ \E nb \in 0..MaxOthers :
       \E na \in 0..(MaxOthers - nb) :
           /\ before \in [1..nb -> Singles]
           /\ after \in [1..na -> Singles]
    /\ \E style \in Styles :
           /\ code_list =
                  Join(before \o <<token.lo \o token.dash \o token.hi>>
                           \o after, style.sep)
           /\ phrase = Str(style.intro \o code_list \o style.outro)
    /\ parsed = <<>>
    /\ extracted = <<>>
    /\ NoNorm
    /\ NoInput
    /\ NoBuild
    /\ NoExtract
    /\ NoTasks

ParseCodeList ==
    /\ pc = "parse"
    /\ parsed' = parse_code_list(code_list)
    /\ pc' = "extract"
    /\ UNCHANGED <<token, before, after, code_list, phrase, extracted>>
    /\ UNCHANGED <<normVars, inputVars, buildVars, runVars,
                   extractVars, taskVars>>

ExtractCodes ==
    /\ pc = "extract"
    /\ extracted' = extract_cpt_codes_from_paragraph(phrase)
    /\ pc' = "extracted"
    /\ UNCHANGED <<token, before, after, code_list, phrase, parsed>>
    /\ UNCHANGED <<normVars, inputVars, buildVars, runVars,
                   extractVars, taskVars>>

NextParse == ParseCodeList \/ ExtractCodes

SpecParse == InitParse /\ [][NextParse]_vars

(***************************************************************************)
(* extract_cpt_codes_from_paragraph, step by step                          *)
(***************************************************************************)
\* the sentences of a paragraph, at most
MaxPieces == 3

\* a sentence: its text, the codes its CPT/HCPCS phrase lists in capitals
\* and digits (primary), the letter-and-four-digit tokens in it (bare),
\* and the codes it writes with a small letter (lower)
Piece(text, prim, bare, lower) ==
    [text |-> text, primary |-> prim, bare |-> bare, lower |-> lower]

Pieces ==
    {Piece("CPT codes 81235, 81236 are covered.", <<"81235", "81236">>,
           <<>>, <<>>),
     Piece("HCPCS code J9271 is payable;", <<"J9271">>, <<"J9271">>, <<>>),
     Piece("CPT code 81235.", <<"81235">>, <<>>, <<>>),
     Piece("HCPCS code j9271 is payable.", <<>>, <<>>, <<"j9271">>),
     Piece("Drug J9271 or J9272 with 81235 given", <<>>,
           <<"J9271", "J9272">>, <<>>),
     Piece("again J9271", <<>>, <<"J9271">>, <<>>),
     Piece("drug j9271", <<>>, <<>>, <<"j9271">>),
     Piece("Covered diagnoses follow", <<>>, <<>>, <<>>),
     Piece("&lt;b&gt;CPT code 81240&lt;&sol;b&gt;:", <<"81240">>, <<>>,
           <<>>)}

InitExtract ==
    /\ pc = "x_start"
    /\ \E n \in 0..MaxPieces : pieces \in [1..n -> Pieces]
    /\ para \in (IF pieces = <<>>
                 THEN {None, Str("")}
                 ELSE {Str(Join([i \in 1..Len(pieces) |-> pieces[i].text],
                                " "))})
    /\ plain = ""
    /\ primary = <<>>
    /\ result = <<>>
    /\ NoNorm
    /\ NoInput
    /\ NoBuild
    /\ NoParse
    /\ NoTasks

\* lines 27-28: nothing to read
ExtractNothing ==
    /\ pc = "x_start"
    /\ ~Truthy(para)
    /\ result' = <<>>
    /\ pc' = "x_done"
    /\ UNCHANGED <<pieces, para, plain, primary>>
    /\ UNCHANGED <<normVars, inputVars, buildVars, runVars, parseVars,
                   taskVars>>

\* lines 30-32
ExtractText ==
    /\ pc = "x_start"
    /\ Truthy(para)
    /\ plain' = SearchText(para)
    /\ pc' = "x_primary"
    /\ UNCHANGED <<pieces, para, primary, result>>
    /\ UNCHANGED <<normVars, inputVars, buildVars, runVars, parseVars,
                   taskVars>>

\* a variant that adds the bare tokens to the codes of the phrases
ExtractBoth ==
    /\ pc = "x_primary"
    /\ primary' = PrimaryCodes(plain, 1)
    /\ result' = BareCodes(plain, 1, primary')
    /\ pc' = "x_done"
    /\ UNCHANGED <<pieces, para, plain>>
    /\ UNCHANGED <<normVars, inputVars, buildVars, runVars, parseVars,
                   taskVars>>

\* lines 34-40, and the return of line 51 when there are codes
ExtractPrimary ==
    /\ pc = "x_primary"
    /\ primary' = PrimaryCodes(plain, 1)
    /\ result' = primary'
    /\ pc' = IF primary' = <<>> THEN "x_bare" ELSE "x_done"
    /\ UNCHANGED <<pieces, para, plain>>
    /\ UNCHANGED <<normVars, inputVars, buildVars, runVars, parseVars,
                   taskVars>>

\* lines 44-51
ExtractBare ==
    /\ pc = "x_bare"
    /\ result' = BareCodes(plain, 1, <<>>)
    /\ pc' = "x_done"
    /\ UNCHANGED <<pieces, para, plain, primary>>
    /\ UNCHANGED <<normVars, inputVars, buildVars, runVars, parseVars,
                   taskVars>>

NextExtract ==
    \/ ExtractNothing
    \/ ExtractText
    \/ ExtractPrimary
    \/ ExtractBare

SpecExtract == InitExtract /\ [][NextExtract]_vars

(***************************************************************************)
(* Builds of one process over the same cached record lists                 *)
(***************************************************************************)
\* the records of the shared lists, over the three lists, at most
MaxShared == 3

\* codes.py lines 125-126: the builds gathered by one search
Tasks == {"a", "b"}

\* the locals of a build that has not started
NewTask ==
    [at |-> "index", hcpc_by_id |-> <<>>, icd10_by_group |-> <<>>,
     all_hcpc_ids |-> <<>>, groups |-> <<>>, cpt_to_icd10 |-> <<>>,
     by_cpt |-> <<>>, reverse |-> <<>>]

\* lines 120-143, on the locals st of a build
IndexStep(st) ==
    LET h == IndexHcpc(hcpc_codes, 1, NoIndex)
        c == IndexIcd10(icd10_covered, 1, NoIndex)
    IN  IF h.raised \/ c.raised
        THEN [st EXCEPT !.at = "raised"]
        ELSE [st EXCEPT !.at = "groups",
                        !.hcpc_by_id = h.index,
                        !.icd10_by_group = c.index,
                        !.all_hcpc_ids = Reorder(DictKeys(h.index), set_order)]

\* a variant that keeps one groups list for all builds: the group is
\* appended to the list whichever build appended last
GroupStepShared(st, grp) ==
    LET longest == CHOOSE u \in Tasks :
                       \A v \in Tasks :
                           Len(tasks[v].groups) <= Len(tasks[u].groups)
        grp_num == Get0(grp.icd10_covered_group)
        paragraph == Get(grp.paragraph, Str(""))
        extracted_cpts == ExtractedCodes[paragraph]
        icd10_list == DictGet(st.icd10_by_group, grp_num, <<>>)
    IN  [st EXCEPT
            !.groups = Append(tasks[longest].groups,
                [group_num |-> grp_num,
                 paragraph |-> Unescaped[paragraph],
                 cpt_codes |-> extracted_cpts,
                 icd10_codes |-> icd10_list]),
            !.cpt_to_icd10 =
                IF extracted_cpts # <<>>
                THEN Associate(@, extracted_cpts, 1, icd10_list)
                ELSE Associate(@, st.all_hcpc_ids, 1, icd10_list)]

\* lines 147-166 for the group grp, on the locals st of a build
GroupStep(st, grp) ==
    LET grp_num == Get0(grp.icd10_covered_group)
        paragraph == Get(grp.paragraph, Str(""))
        extracted_cpts == ExtractedCodes[paragraph]
        icd10_list == DictGet(st.icd10_by_group, grp_num, <<>>)
    IN  [st EXCEPT
            !.groups = Append(@,
                [group_num |-> grp_num,
                 paragraph |-> Unescaped[paragraph],
                 cpt_codes |-> extracted_cpts,
                 icd10_codes |-> icd10_list]),
            !.cpt_to_icd10 =
                IF extracted_cpts # <<>>
                THEN Associate(@, extracted_cpts, 1, icd10_list)
                ELSE Associate(@, st.all_hcpc_ids, 1, icd10_list)]

\* lines 169-189
ByCptStep(st) ==
    [st EXCEPT !.at = "reverse",
               !.by_cpt = ByCpt(st.cpt_to_icd10, st.hcpc_by_id)]

\* lines 202-219
ReverseStep(st) ==
    [st EXCEPT !.at = "done", !.reverse = Reverse(<<>>, st.by_cpt, 1)]

InitTasks ==
    /\ pc = "tasks"
    /\ \E nh \in 0..MaxShared :
       \E ni \in 0..(MaxShared - nh) :
       \E ng \in 0..(MaxShared - nh - ni) :
           /\ hcpc_codes \in [1..nh -> HcpcRecords]
           /\ icd10_covered \in [1..ni -> Icd10Records]
           /\ icd10_covered_groups \in [1..ng -> GroupRecords]
    /\ set_order \in
           Orders(DictKeys(IndexHcpc(hcpc_codes, 1, NoIndex).index))
    /\ tasks = [t \in Tasks |-> NewTask]
    /\ NoBuild
    /\ NoNorm
    /\ NoParse
    /\ NoExtract
    /\ run = 1
    /\ first = <<>>

TaskIndex(t) ==
    /\ tasks[t].at = "index"
    /\ tasks' = [tasks EXCEPT ![t] = IndexStep(@)]
    /\ UNCHANGED <<pc, set_order>>
    /\ UNCHANGED <<normVars, inputVars, buildVars, runVars, parseVars,
                   extractVars>>

TaskGroup(t) ==
    /\ tasks[t].at = "groups"
    /\ Len(tasks[t].groups) < Len(icd10_covered_groups)
    /\ tasks' = [tasks EXCEPT ![t] =
           GroupStep(@, icd10_covered_groups[Len(@.groups) + 1])]
    /\ UNCHANGED <<pc, set_order>>
    /\ UNCHANGED <<normVars, inputVars, buildVars, runVars, parseVars,
                   extractVars>>

TaskByCpt(t) ==
    /\ tasks[t].at = "groups"
    /\ Len(tasks[t].groups) = Len(icd10_covered_groups)
    /\ tasks' = [tasks EXCEPT ![t] = ByCptStep(@)]
    /\ UNCHANGED <<pc, set_order>>
    /\ UNCHANGED <<normVars, inputVars, buildVars, runVars, parseVars,
                   extractVars>>

TaskReverse(t) ==
    /\ tasks[t].at = "reverse"
    /\ tasks' = [tasks EXCEPT ![t] = ReverseStep(@)]
    /\ UNCHANGED <<pc, set_order>>
    /\ UNCHANGED <<normVars, inputVars, buildVars, runVars, parseVars,
                   extractVars>>

NextTasks ==
    \E t \in Tasks :
        \/ TaskIndex(t)
        \/ TaskGroup(t)
        \/ TaskByCpt(t)
        \/ TaskReverse(t)

SpecTasks == InitTasks /\ [][NextTasks]_vars

(***************************************************************************)
(* The claims                                                              *)
(***************************************************************************)
\* the codes of a list of entries
Codes(list) == {list[i].code : i \in 1..Len(list)}

\* by_cpt[p].icd10_codes
Icd10Of(p) == by_cpt[KeyIndex(by_cpt, p)].val.icd10_codes

\* the build has returned by_cpt
Built == pc \in {"reverse", "done"}

\* the codes extracted from the paragraph of the g-th coverage group
ExtractedOf(g) ==
    ExtractedCodes[Get(icd10_covered_groups[g].paragraph, Str(""))]

\* the diagnosis entries indexed under the id of the g-th coverage group
IndexedOf(g) ==
    DictGet(icd10_by_group, Get0(icd10_covered_groups[g].icd10_covered_group),
            <<>>)

\* C1: two runs on the same record lists return the same by_cpt and the same
\* reverse mapping, the order of the keys and of every list included, also
\* when a group yields no codes and the fallback over all procedure codes is
\* taken.  It fails: the fallback iterates a set of strings, whose order
\* changes from one interpreter process to the next.
C1_SameOutputs ==
    (run = 2 /\ pc = "done") =>
        (by_cpt = first.by_cpt /\ reverse = first.reverse)

\* C2: for every coverage group whose paragraph yields codes, every
\* extracted code c has a by_cpt entry, and by_cpt[c].icd10_codes holds an
\* entry for the code of every diagnosis entry indexed under the group's id.
C2_CrossProduct ==
    Built =>
        \A g \in 1..Len(icd10_covered_groups) :
            ExtractedOf(g) # <<>> =>
                \A i \in 1..Len(ExtractedOf(g)) :
                \A j \in 1..Len(IndexedOf(g)) :
                    /\ HasKey(by_cpt, ExtractedOf(g)[i])
                    /\ IndexedOf(g)[j].code \in
                           Codes(Icd10Of(ExtractedOf(g)[i]))

\* a built mapping where a group names three codes and has two diagnosis
\* codes, each code holding both
C2_Witness ==
    /\ Built
    /\ \E g \in 1..Len(icd10_covered_groups) :
           /\ ExtractedOf(g) = <<"J9271", "81236", "81235">>
           /\ Codes(IndexedOf(g)) = {"C34.10", "C50.911"}
    /\ \A p \in {"J9271", "81236", "81235"} :
           HasKey(by_cpt, p) /\ Codes(Icd10Of(p)) = {"C34.10", "C50.911"}

\* C3: for every coverage group whose paragraph yields no codes, every code
\* p of the procedure index has a by_cpt entry, and by_cpt[p].icd10_codes
\* holds an entry for the code of every diagnosis entry indexed under the
\* group's id.
C3_Fallback ==
    Built =>
        \A g \in 1..Len(icd10_covered_groups) :
            ExtractedOf(g) = <<>> =>
                \A i \in 1..Len(hcpc_by_id) :
                \A j \in 1..Len(IndexedOf(g)) :
                    /\ HasKey(by_cpt, hcpc_by_id[i].key)
                    /\ IndexedOf(g)[j].code \in Codes(Icd10Of(hcpc_by_id[i].key))

\* a built mapping of two procedure codes and one group without codes,
\* whose diagnosis code both procedure codes hold
C3_Witness ==
    /\ Built
    /\ Len(hcpc_by_id) = 2
    /\ Len(icd10_covered_groups) = 1
    /\ ExtractedOf(1) = <<>>
    /\ IndexedOf(1) # <<>>
    /\ \A i \in 1..2 : Codes(Icd10Of(hcpc_by_id[i].key)) = Codes(IndexedOf(1))

\* C4: in by_cpt[p].icd10_codes no two entries have the same code, every
\* code accumulated for p is there, and the entry of a code is the first
\* one accumulated for p (cpt_to_icd10[p]: groups in input order, diagnosis
\* records in input order within a group).
C4_FirstWins ==
    Built =>
        \A n \in 1..Len(by_cpt) :
            LET kept == by_cpt[n].val.icd10_codes
                all == DictGet(cpt_to_icd10, by_cpt[n].key, <<>>)
                firstOf(code) ==
                    all[CHOOSE k \in 1..Len(all) :
                            /\ all[k].code = code
                            /\ \A j \in 1..(k - 1) : all[j].code # code]
            IN  /\ \A a, b \in 1..Len(kept) :
                       a # b => kept[a].code # kept[b].code
                /\ Codes(kept) = Codes(all)
                /\ \A a \in 1..Len(kept) : kept[a] = firstOf(kept[a].code)

\* a procedure code for which two groups accumulated the same diagnosis
\* code with two descriptions, the first of which is kept
C4_Witness ==
    /\ Built
    /\ HasKey(by_cpt, "81235")
    /\ \E a, b \in 1..Len(DictGet(cpt_to_icd10, "81235", <<>>)) :
           LET all == DictGet(cpt_to_icd10, "81235", <<>>)
           IN  /\ a < b
               /\ all[a].code = all[b].code
               /\ all[a].description = Str("Lung cancer")
               /\ all[b].description = Str("Lung, other")
    /\ Len(Icd10Of("81235")) = 1
    /\ Icd10Of("81235")[1].description = Str("Lung cancer")

\* the procedure codes whose by_cpt entry lists the diagnosis code d
ListedBy(d) ==
    {by_cpt[n].key : n \in {m \in 1..Len(by_cpt) :
                               d \in Codes(by_cpt[m].val.icd10_codes)}}

\* C5: for every key d of the reverse mapping, the codes of
\* reverse[d].cpt_codes are the procedure codes p whose by_cpt[p].icd10_codes
\* holds d; and every diagnosis code of some by_cpt[p].icd10_codes is a key
\* of the reverse mapping.
C5_RoundTrip ==
    pc = "done" =>
        /\ \A n \in 1..Len(reverse) :
               Codes(reverse[n].val.cpt_codes) = ListedBy(reverse[n].key)
        /\ \A n \in 1..Len(by_cpt) :
               \A d \in Codes(by_cpt[n].val.icd10_codes) : HasKey(reverse, d)

\* a reverse mapping of two diagnosis codes, one of them listed by three
\* procedure codes
C5_Witness ==
    /\ pc = "done"
    /\ Len(reverse) = 2
    /\ \E n \in 1..Len(reverse) :
           /\ Cardinality(Codes(reverse[n].val.cpt_codes)) = 3
           /\ ListedBy(reverse[n].key) = Codes(reverse[n].val.cpt_codes)

\* the range written in the list is numeric
Numeric == token.lo \in NumEnds

\* the letters and the numbers of the two ends of the range
LetterLo == IF Numeric THEN "" ELSE At(token.lo, 1)
LetterHi == IF Numeric THEN "" ELSE At(token.hi, 1)
Start == IF Numeric THEN IntOf(token.lo) ELSE IntOf(From(token.lo, 2))
End == IF Numeric THEN IntOf(token.hi) ELSE IntOf(From(token.hi, 2))

\* n in decimal, with zeros in front up to four digits
Padded(n) == SubSeq("0000", 1, 4 - Len(StrOf(n))) \o StrOf(n)

\* C6: in _parse_code_list a range contributes at most MaxSpan + 1 codes,
\* and a numeric or same-letter range whose span exceeds MaxSpan
\* contributes none: the list yields the single codes around it and nothing
\* else.
C6_SpanBound ==
    pc \in {"extract", "extracted"} =>
        /\ Len(parsed) <= Len(before) + Len(after) + MaxSpan + 1
        /\ (LetterLo = LetterHi /\ End - Start > MaxSpan) =>
               parsed = before \o after

\* a list with a numeric range of a span over MaxSpan after a single code,
\* parsed to that single code
C6_Witness ==
    /\ pc = "extract"
    /\ Numeric
    /\ End - Start > MaxSpan
    /\ Len(before) = 1
    /\ parsed = before

C8_AlphaRange ==
    (pc \in {"extract", "extracted"} /\ ~Numeric) =>
        /\ (LetterLo = LetterHi /\ Start <= End /\ End - Start <= MaxSpan) =>
               parsed =
                   before
                       \o [k \in 1..(End - Start + 1) |->
                              LetterLo \o Padded(Start + k - 1)]
                       \o after
        /\ LetterLo # LetterHi => parsed = before \o after

\* the range J0009-J0012 parsed to its four codes, zeros kept
C8_Witness ==
    /\ pc = "extract"
    /\ token.lo = "J0009"
    /\ token.hi = "J0012"
    /\ before = <<>>
    /\ after = <<>>
    /\ parsed = <<"J0009", "J0010", "J0011", "J0012">>

\* C9: unescape_html applied to its own result changes nothing, whatever
\* the text, a text escaped three times included.  It fails: one call
\* decodes two levels, so a third level is left for the second call.
C9_Idempotent == pc = "norm_done" => twice = once

\* C10: build_cpt_icd10_mapping never raises on a record with a field
\* absent, null or empty.  It fails: .strip() is called on the null of
\* hcpc_code_id or icd10_code_id.
C10_NeverRaises == pc # "raised"

\* c in capitals
UpperChar(c) ==
    IF IsLower(c)
    THEN At(UpperChars, CHOOSE i \in 1..26 : At(LowerChars, i) = c)
    ELSE c

RECURSIVE ToUpper(_)
ToUpper(word) ==
    IF word = ""
    THEN ""
    ELSE UpperChar(At(word, 1)) \o ToUpper(From(word, 2))

\* the call of extract_cpt_codes_from_paragraph has returned
Extracted == pc = "x_done"

\* C11: codes are put in capitals at extraction: a code the paragraph writes
\* with a small letter is returned in capitals, neither kept as written nor
\* lost.  Stated for a paragraph of one sentence, where no other code decides
\* which pattern contributes.  It fails: the code is lost.
C11_Uppercase ==
    (Extracted /\ Len(pieces) = 1) =>
        \A k \in 1..Len(pieces[1].lower) :
            \E j \in 1..Len(result) : result[j] = ToUpper(pieces[1].lower[k])

\* the codes the CPT/HCPCS phrases of the sentences list, in order
RECURSIVE PhraseCodes(_)
PhraseCodes(n) ==
    IF n = 0 THEN <<>> ELSE PhraseCodes(n - 1) \o pieces[n].primary

\* the letter-and-four-digit tokens of the sentences, in order
RECURSIVE BareTokens(_)
BareTokens(n) ==
    IF n = 0 THEN <<>> ELSE BareTokens(n - 1) \o pieces[n].bare

\* list with every element at its first place only
FirstSeen(list) ==
    LET keep == {i \in 1..Len(list) :
                    \A j \in 1..(i - 1) : list[j] # list[i]}
    IN  [n \in 1..Cardinality(keep) |->
            list[CHOOSE i \in keep : Cardinality({j \in keep : j <= i}) = n]]

C12_FallbackWitness ==
    /\ Extracted
    /\ PhraseCodes(Len(pieces)) = <<>>
    /\ result # <<>>
    /\ Len(result) < Len(BareTokens(Len(pieces)))

\* the entry lines 134-138 make of a diagnosis record
EntryOf(ic) ==
    [code |-> Strip(Get(ic.icd10_code_id, Str("")).val),
     description |-> Get(ic.description, Str("")),
     asterisk |-> Get(ic.asterisk, Str(""))]

\* the places of the diagnosis records that carry the group id grp_num
RecordsOf(grp_num) ==
    {n \in 1..Len(icd10_covered) :
        /\ grp_num # None
        /\ Get0(icd10_covered[n].icd10_covered_group) = grp_num}

\* the entries of those records, in the order of the input
EntriesOf(grp_num) ==
    LET at == RecordsOf(grp_num)
    IN  [k \in 1..Cardinality(at) |->
            EntryOf(icd10_covered[
                CHOOSE n \in at : Cardinality({m \in at : m <= n}) = k])]

\* some record has a null code id, on which .strip() raises
NullCodeId ==
    \/ \E n \in 1..Len(hcpc_codes) : hcpc_codes[n].hcpc_code_id = None
    \/ \E n \in 1..Len(icd10_covered) : icd10_covered[n].icd10_code_id = None

\* a group processed with an empty diagnosis list leaves every list of
\* cpt_to_icd10 as it was, and a key it adds has the empty list
AddsNothing ==
    (/\ Len(groups') = Len(groups) + 1
     /\ groups'[Len(groups')].icd10_codes = <<>>)
    => \A n \in 1..Len(cpt_to_icd10') :
           cpt_to_icd10'[n].val =
               DictGet(cpt_to_icd10, cpt_to_icd10'[n].key, <<>>)

\* C13: absent group ids produce no association and no error.  The diagnosis
\* list of every processed group is the entries of the diagnosis records that
\* carry the group's id, so a record without a group id is in no list, and a
\* group without an id or with an id no record carries has the empty list;
\* every diagnosis entry of by_cpt comes from a record with a group id; a
\* group with the empty list adds no diagnosis code to cpt_to_icd10; and the
\* build raises only on a null code id, never on a group id.
C13_AbsentGroups ==
    /\ [](/\ \A g \in 1..Len(groups) :
                groups[g].icd10_codes =
                    EntriesOf(Get0(icd10_covered_groups[g].icd10_covered_group))
          /\ Built =>
                \A m \in 1..Len(by_cpt) :
                \A k \in 1..Len(by_cpt[m].val.icd10_codes) :
                    \E n \in 1..Len(icd10_covered) :
                        /\ Get0(icd10_covered[n].icd10_covered_group) # None
                        /\ EntryOf(icd10_covered[n]) =
                               by_cpt[m].val.icd10_codes[k]
          /\ pc = "raised" => NullCodeId)
    /\ [][AddsNothing]_vars

\* a built mapping from a diagnosis record without a group id, a group
\* without an id and a group whose id no record carries: the procedure code
\* has an entry with no diagnosis code
C13_Witness ==
    /\ Built
    /\ \E n \in 1..Len(icd10_covered) :
           /\ Get0(icd10_covered[n].icd10_covered_group) = None
           /\ EntryOf(icd10_covered[n]).code # ""
    /\ \E g \in 1..Len(groups) : groups[g].group_num = None
    /\ \E g \in 1..Len(groups) :
           groups[g].group_num # None /\ groups[g].icd10_codes = <<>>
    /\ by_cpt # <<>>
    /\ \A m \in 1..Len(by_cpt) : by_cpt[m].val.icd10_codes = <<>>

\* the code id of a procedure record, stripped (line 122)
CodeIdOf(h) == Strip(Get(h.hcpc_code_id, Str("")).val)

\* the description line 126 resolves for a procedure record
DescriptionOf(h) ==
    IF Truthy(Get0(h.long_description))
    THEN Get0(h.long_description)
    ELSE Get(h.short_description, Str(""))

\* the first procedure record that carries the code
FirstRecordOf(code) ==
    hcpc_codes[CHOOSE n \in 1..Len(hcpc_codes) :
                   /\ CodeIdOf(hcpc_codes[n]) = code
                   /\ \A m \in 1..(n - 1) : CodeIdOf(hcpc_codes[m]) # code]

\* C14: when several procedure records carry the same code, the description
\* in the procedure index, and so in by_cpt, is the one resolved from the
\* first of them.  It fails: line 124 assigns hcpc_by_id[cid] for every
\* record, so the last record's description stays.
C14_FirstDescription ==
    pc \in {"index_icd10", "id_set", "groups", "reverse", "done"} =>
        /\ \A n \in 1..Len(hcpc_by_id) :
               hcpc_by_id[n].val.description =
                   DescriptionOf(FirstRecordOf(hcpc_by_id[n].key))
        /\ Built =>
               \A m \in 1..Len(by_cpt) :
                   HasKey(hcpc_by_id, by_cpt[m].key) =>
                       by_cpt[m].val.description =
                           DescriptionOf(FirstRecordOf(by_cpt[m].key))

\* the records of the scenario
ScenarioHcpc == Hcpc(Str("81235"), Str("EGFR gene analysis"), Absent, Absent)
ScenarioIcd10 == Icd10(Str("C34.10"), Str("Lung cancer"), Absent, IntV("1"))
ScenarioGroup == Group(IntV("1"), Str("CPT code 81235 is covered for..."))

ListingPlaces(d) ==
    {m \in 1..Len(by_cpt) : d \in Codes(by_cpt[m].val.icd10_codes)}

\* the procedure codes that list d, in the order of the keys of by_cpt
ListingKeys(d) ==
    LET at == ListingPlaces(d)
    IN  [k \in 1..Cardinality(at) |->
            by_cpt[CHOOSE m \in at : Cardinality({j \in at : j <= m}) = k].key]

\* the description of d in the first by_cpt entry that lists it
FirstListedDescription(d) ==
    LET m == CHOOSE j \in ListingPlaces(d) :
                 \A l \in ListingPlaces(d) : j <= l
        listed == by_cpt[m].val.icd10_codes
    IN  listed[CHOOSE k \in 1..Len(listed) : listed[k].code = d].description

\* C16: in the reverse mapping, cpt_codes of a diagnosis code d holds every
\* procedure code at most once, in the order in which the procedure codes
\* that list d are keys of by_cpt, and the description of d is the one of the
\* first by_cpt entry, in that order, that lists d.
C16_ReverseOrder ==
    pc = "done" =>
        \A n \in 1..Len(reverse) :
            LET d == reverse[n].key
                cpts == reverse[n].val.cpt_codes
            IN  /\ \A a, b \in 1..Len(cpts) :
                       a # b => cpts[a].code # cpts[b].code
                /\ [k \in 1..Len(cpts) |-> cpts[k].code] = ListingKeys(d)
                /\ reverse[n].val.description = FirstListedDescription(d)

\* a diagnosis code listed by two procedure codes, with one description under
\* the first and another under the second
C16_Witness ==
    /\ pc = "done"
    /\ \E n \in 1..Len(reverse) :
           LET d == reverse[n].key
           IN  /\ Len(reverse[n].val.cpt_codes) = 2
               /\ \E m \in ListingPlaces(d) :
                  \E k \in 1..Len(by_cpt[m].val.icd10_codes) :
                      /\ by_cpt[m].val.icd10_codes[k].code = d
                      /\ by_cpt[m].val.icd10_codes[k].description #
                             reverse[n].val.description

\* the locals of a build run alone, after its first n groups
RECURSIVE AloneGroups(_)
AloneGroups(n) ==
    IF n = 0 THEN IndexStep(NewTask)
    ELSE GroupStep(AloneGroups(n - 1), icd10_covered_groups[n])

\* a build of the records run alone in this process: its locals when
\* build_cpt_icd10_mapping returns, and when build_icd10_to_cpt_mapping does
AloneForward ==
    IF IndexStep(NewTask).at = "raised" THEN IndexStep(NewTask)
    ELSE ByCptStep(AloneGroups(Len(icd10_covered_groups)))

AloneReverse ==
    IF AloneForward.at = "raised" THEN AloneForward
    ELSE ReverseStep(AloneForward)

\* C17: the builds keep no state between calls and leave the record lists
\* as given: no step of any build changes the records, and whatever the
\* interleaving of the builds over the same lists, every build returns what
\* a build run alone returns (by_cpt, groups, the procedure index and the
\* reverse mapping), and raises when a build run alone raises.
C17_Pure ==
    /\ [](\A t \in DOMAIN tasks :
              /\ tasks[t].at = "reverse" => tasks[t] = AloneForward
              /\ tasks[t].at = "done" => tasks[t] = AloneReverse
              /\ tasks[t].at = "raised" => AloneForward.at = "raised")
    /\ [][UNCHANGED inputVars]_vars

\* two builds under way at once: one has returned by_cpt for two procedure
\* codes and has its reverse mapping still to make, the other is between two
\* groups
C17_Witness ==
    /\ pc = "tasks"
    /\ \E t, u \in DOMAIN tasks :
           /\ tasks[t].at = "reverse"
           /\ Len(tasks[t].by_cpt) = 2
           /\ tasks[u].at = "groups"
           /\ Len(tasks[u].groups) = 1
           /\ Len(icd10_covered_groups) = 2

\* the groups that associate their diagnosis codes with the procedure code p
GroupsOf(p) ==
    {g \in 1..Len(icd10_covered_groups) :
        \/ \E i \in 1..Len(ExtractedOf(g)) : ExtractedOf(g)[i] = p
        \/ ExtractedOf(g) = <<>> /\ HasKey(hcpc_by_id, p)}

\* C18: every code extracted from the paragraph of any group is a key of
\* by_cpt; its description is the one of the procedure index when the code is
\* in the index and the empty string when it is not; and its icd10_codes is
\* empty when no group that names it has a diagnosis code.
C18_EntryExists ==
    Built =>
        \A g \in 1..Len(icd10_covered_groups) :
        \A i \in 1..Len(ExtractedOf(g)) :
            LET p == ExtractedOf(g)[i]
            IN  /\ HasKey(by_cpt, p)
                /\ by_cpt[KeyIndex(by_cpt, p)].val.description =
                       IF HasKey(hcpc_by_id, p)
                       THEN hcpc_by_id[KeyIndex(hcpc_by_id, p)].val.description
                       ELSE Str("")
                /\ (\A h \in GroupsOf(p) : IndexedOf(h) = <<>>) =>
                       Icd10Of(p) = <<>>

\* a built mapping with an extracted code that no procedure record carries,
\* entered with the empty description and no diagnosis code, next to a code
\* of the index with its description
C18_Witness ==
    /\ Built
    /\ \E m \in 1..Len(by_cpt) :
           /\ ~HasKey(hcpc_by_id, by_cpt[m].key)
           /\ by_cpt[m].val.description = Str("")
           /\ by_cpt[m].val.icd10_codes = <<>>
    /\ \E m \in 1..Len(by_cpt) :
           /\ HasKey(hcpc_by_id, by_cpt[m].key)
           /\ by_cpt[m].val.description = Str("EGFR gene analysis")

\* the codes the range contributes to the parsed list
RangeCodes == SubSeq(parsed, Len(before) + 1, Len(parsed) - Len(after))

\* C19: a numeric range whose two ends are written with the same number of
\* digits, with 0 <= end - start <= MaxSpan, expands to codes of that number
\* of digits, the first and the last being the two ends as written.  It
\* fails for ends written with zeros in front: line 72 appends str(c).
C19_WrittenForm ==
    (/\ pc \in {"extract", "extracted"}
     /\ Numeric
     /\ Len(token.lo) = Len(token.hi)
     /\ Start <= End
     /\ End - Start <= MaxSpan) =>
        /\ Len(RangeCodes) = End - Start + 1
        /\ \A k \in 1..Len(RangeCodes) : Len(RangeCodes[k]) = Len(token.lo)
        /\ RangeCodes[1] = token.lo
        /\ RangeCodes[Len(RangeCodes)] = token.hi

\* C20: no association is made up: a diagnosis code d is in
\* by_cpt[p].icd10_codes only if some group has d among the diagnosis records
\* indexed under its id and either names p in its paragraph or names no code
\* at all while p is a code of the procedure records.
C20_NoSpurious ==
    Built =>
        \A m \in 1..Len(by_cpt) :
        \A d \in Codes(by_cpt[m].val.icd10_codes) :
            \E g \in GroupsOf(by_cpt[m].key) : d \in Codes(IndexedOf(g))

\* a built mapping where a group names one procedure code, which holds the
\* group's diagnosis code, while another procedure code of the article, not
\* named by the group, does not hold it
C20_Witness ==
    /\ Built
    /\ \E g \in 1..Len(icd10_covered_groups) :
       \E m, n \in 1..Len(by_cpt) :
       \E d \in Codes(IndexedOf(g)) :
           /\ by_cpt[m].key \in {ExtractedOf(g)[i] : i \in 1..Len(ExtractedOf(g))}
           /\ d \in Codes(by_cpt[m].val.icd10_codes)
           /\ HasKey(hcpc_by_id, by_cpt[n].key)
           /\ by_cpt[n].key \notin
                  {ExtractedOf(g)[i] : i \in 1..Len(ExtractedOf(g))}
           /\ d \notin Codes(by_cpt[n].val.icd10_codes)

=============================================================================
